---- MODULE Spec2Model ----
(***************************************************************************)
(* The OpenLogin orchestrator (packages/openlogin/src/OpenLogin.ts) as a   *)
(* state machine: construction, init, login (redirect and popup), logout.  *)
(* Every await of the source is a position of pc; calls are serialized.    *)
(***************************************************************************)
EXTENDS Integers, Sequences, FiniteSets, TLC

VARIABLES
  options,         \* this.options, after the constructor's defaulting
  state,           \* this.state: a sparse record, field name -> value
  sessionManager,  \* this.sessionManager (sessionKey, sessionTime), or not yet made
  storage,         \* the persisted value currentStorage["sessionId"]
  location,        \* window.location: base URL and parsed hash parameters
  pc,              \* position of the call in progress ("idle": none)
  promise,         \* the promise returned by the call in progress or last made
  popup,           \* the PopupHandler of the login in progress
  store,           \* the session store server: created login requests, invalidated keys
  loginId,         \* the login-request id of the login in progress
  calls,           \* session-store calls made by the call in progress or last made
  pre              \* state, session manager and storage when that call began

vars == <<options, state, sessionManager, storage, location, pc, promise, popup,
          store, loginId, calls, pre>>

----------------------------------------------------------------------------
(* Values *)

\* JavaScript's undefined, for string-valued slots
Undefined == "undefined"

\* a record with no fields: {}
EmptyRec == [f \in {} |-> ""]

\* JavaScript truthiness of a string-valued slot
Truthy(s) == s # Undefined /\ s # ""

\* JavaScript truthiness of field f of a sparse record whose value is a string
TruthyField(r, f) == f \in DOMAIN r /\ Truthy(r[f])

\* r.f of a sparse record: undefined when the field is absent
Field(r, f) == IF f \in DOMAIN r THEN r[f] ELSE Undefined

\* {...s, ...d}
Spread(s, d) == [f \in DOMAIN s \cup DOMAIN d |-> IF f \in DOMAIN d THEN d[f] ELSE s[f]]

\* number of login-request keys the model mints
MaxLogins == 2

\* fixed-width hex length of the key accessors
PadWidth == 64

\* lifetime of a login-request session
LoginSessionTime == 600

\* default lifetime of a user session
DefaultSessionTime == 86400

\* padding on the wrong side: String.prototype.padEnd(n, "0")
RECURSIVE padEnd(_, _)
padEnd(s, n) == IF Len(s) >= n THEN s ELSE padEnd(s \o "0", n)

\* String.prototype.padStart(n, "0")
RECURSIVE padStart(_, _)
padStart(s, n) == IF Len(s) >= n THEN s ELSE padStart("0" \o s, n)

\* a private key that already has the full width
FullKey == "1111111111111111222222222222222233333333333333334444444444444444"

\* user session keys the hosted service hands out
SessionKeys == {"k1", "k2", "k3"}

\* the session data the store holds under each user session key (sparse records)
SessionDataOf(k) ==
  CASE k = "k1" -> [privKey |-> "abc", coreKitKey |-> "c0re",
                    userInfo |-> [name |-> "alice", email |-> "a@x", typeOfLogin |-> "google"]]
    [] k = "k2" -> [privKey |-> FullKey, walletKey |-> "w2",
                    userInfo |-> [name |-> "bob", verifier |-> "v2"]]
    [] OTHER    -> [coreKitKey |-> "c3", tKey |-> "t3"]

\* OpenloginSessionManager.generateRandomSessionKey: the n-th fresh key
GenerateRandomSessionKey(n) == "L" \o ToString(n)

\* the key fields of the session data
KeyFields ==
  {"privKey", "coreKitKey", "coreKitEd25519PrivKey", "ed25519PrivKey", "walletKey",
   "oAuthPrivateKey", "tKey"}

\* the fields of userInfo
UserInfoFields ==
  {"name", "profileImage", "dappShare", "idToken", "oAuthIdToken", "oAuthAccessToken",
   "appState", "email", "verifier", "verifierId", "aggregateVerifier", "typeOfLogin"}

\* a logout that resets the keys and forgets the nested userInfo
LogoutStateKeysOnly == [f \in KeyFields |-> ""]

\* the fields logout resets
LogoutState ==
  [privKey |-> "", coreKitKey |-> "", coreKitEd25519PrivKey |-> "", ed25519PrivKey |-> "",
   walletKey |-> "", oAuthPrivateKey |-> "", tKey |-> "",
   userInfo |-> [name |-> "", profileImage |-> "", dappShare |-> "", idToken |-> "",
                 oAuthIdToken |-> "", oAuthAccessToken |-> "", appState |-> "",
                 email |-> "", verifier |-> "", verifierId |-> "",
                 aggregateVerifier |-> "", typeOfLogin |-> ""]]

----------------------------------------------------------------------------
(* Pure parts of the orchestrator *)

\* the constructor's defaulting of the optional fields
Constructor(o) ==
  LET o1 == IF "redirectUrl" \in DOMAIN o /\ Truthy(o.redirectUrl)
            THEN o ELSE Spread(o, [redirectUrl |-> "dapp"])
      o2 == IF "uxMode" \in DOMAIN o1 /\ Truthy(o1.uxMode)
            THEN o1 ELSE Spread(o1, [uxMode |-> "redirect"])
      o3 == IF "replaceUrlOnRedirect" \in DOMAIN o2 /\ o2.replaceUrlOnRedirect
            THEN o2 ELSE Spread(o2, [replaceUrlOnRedirect |-> TRUE])
      o4 == IF "sessionTime" \in DOMAIN o3 /\ o3.sessionTime # 0
            THEN o3 ELSE Spread(o3, [sessionTime |-> DefaultSessionTime])
  IN o4

\* get privKey()
PrivKey(s) == IF TruthyField(s, "privKey") THEN padStart(s.privKey, PadWidth) ELSE ""

\* get coreKitKey()
CoreKitKey(s) == IF TruthyField(s, "coreKitKey") THEN padStart(s.coreKitKey, PadWidth) ELSE ""

\* a merge in which the fields already in state win over the new data
UpdateStateKeepsOld(s, data) == Spread(data, s)

\* updateState(data)
UpdateState(s, data) == Spread(s, data)

\* constructURL({ baseURL, hash })
ConstructURL(baseURL, hash) == [base |-> baseURL, hash |-> hash]

\* getHashQueryParams(replaceUrl): the parameters parsed from the page's hash
HashQueryParams(loc) == loc.hash

\* getHashQueryParams(replaceUrl): the visible URL afterwards
UrlAfterParse(loc, replaceUrl) == IF replaceUrl THEN [loc EXCEPT !.hash = EmptyRec] ELSE loc

----------------------------------------------------------------------------
(* Inputs *)

\* what a caller passes to the constructor
OptionChoices ==
  LET ux == {EmptyRec, [uxMode |-> "redirect"], [uxMode |-> "popup"]}
      ru == {EmptyRec, [replaceUrlOnRedirect |-> TRUE], [replaceUrlOnRedirect |-> FALSE]}
      st == {EmptyRec, [sessionTime |-> 3600]}
  IN {Spread(Spread(a, b), c) : a \in ux, b \in ru, c \in st}

\* the hash of the page the dapp is loaded on
HashChoices == {EmptyRec} \cup {[sessionId |-> k] : k \in SessionKeys}

\* what a caller passes to login(): nothing, or a parameter record
LoginParamChoices ==
  {[given |-> FALSE, fields |-> EmptyRec],
   [given |-> TRUE, fields |-> EmptyRec],
   [given |-> TRUE, fields |-> [loginProvider |-> "google"]]}

----------------------------------------------------------------------------
(* State *)

NoSessionManager == [made |-> FALSE, sessionKey |-> Undefined, sessionTime |-> 0]

\* no user-info record: whether there is one, and its fields
NoInfo == [present |-> FALSE, value |-> EmptyRec]

\* no call made yet: the call's name, the promise's status and value, and how many
\* times resolve or reject has been invoked on it; info is the user-info record a
\* getUserInfo call returned
NoPromise == [op |-> "none", status |-> "none", value |-> Undefined, settles |-> 0,
              info |-> NoInfo]

\* no PopupHandler: status, the URL it was made with, the key its channel delivered
NoPopup == [status |-> "none", url |-> ConstructURL("", EmptyRec), message |-> Undefined]

\* a call made without an argument
NoArgs == [given |-> FALSE, fields |-> EmptyRec]

\* what a call finds when it begins, and the argument it was given
Snapshot == [state |-> state, sessionManager |-> sessionManager, storage |-> storage,
             location |-> location, store |-> store, args |-> NoArgs]

\* the Snapshot of a call (or a construction) that was given the record r
Started(r) == [Snapshot EXCEPT !.args = [given |-> TRUE, fields |-> r]]

\* the promise an async call returns
Pending(op) == [op |-> op, status |-> "pending", value |-> Undefined, settles |-> 0,
                info |-> NoInfo]

\* resolve(v) / reject(e) on a promise: only a pending promise changes
Settle(p, status, v) ==
  IF p.status = "pending"
  THEN [p EXCEPT !.status = status, !.value = v, !.settles = @ + 1]
  ELSE [p EXCEPT !.settles = @ + 1]

\* a request a session manager sends to the session store
Call(fn, sm, data) ==
  [fn |-> fn, key |-> sm.sessionKey, sessionTime |-> sm.sessionTime, data |-> data,
   outcome |-> "pending"]

\* the session store's answer to the request in flight
Answered(cs, outcome) == [cs EXCEPT ![Len(cs)].outcome = outcome]

Init ==
  /\ \E h \in HashChoices : location = ConstructURL("dapp", h)
  /\ state = EmptyRec
  /\ sessionManager = NoSessionManager
  /\ storage = Undefined
  /\ pc = "idle"
  /\ promise = NoPromise
  /\ popup = NoPopup
  /\ store = [sessions |-> {}, invalidated |-> {}, minted |-> 0]
  /\ loginId = Undefined
  /\ calls = <<>>
  /\ \E o \in OptionChoices :
       /\ options = Constructor(o)
       /\ pre = Started(o)

----------------------------------------------------------------------------
(* A page load: the dapp constructs a new orchestrator, with the options it    *)
(* always passes, over the same storage                                       *)

PageLoad ==
  /\ pc \in {"idle", "navigated"}
  /\ options' = Constructor(options)
  /\ \E h \in HashChoices : location' = ConstructURL("dapp", h)
  /\ state' = EmptyRec
  /\ sessionManager' = NoSessionManager
  /\ pc' = "idle"
  /\ promise' = NoPromise
  /\ popup' = NoPopup
  /\ loginId' = Undefined
  /\ calls' = <<>>
  /\ pre' = [state |-> state', sessionManager |-> sessionManager',
             storage |-> storage, location |-> location', store |-> store,
             args |-> [given |-> TRUE, fields |-> options]]
  /\ UNCHANGED <<storage, store>>

----------------------------------------------------------------------------
(* init() *)

\* a key test that takes every defined key, the empty string included, for a key
HasKeyWhenDefined(sm) == sm.sessionKey # Undefined

\* if (this.sessionManager.sessionKey): the session manager holds an active key
HasKey(sm) == Truthy(sm.sessionKey)

\* new OpenloginSessionManager({ ..., sessionTime, sessionId })
NewSessionManager(sessionId) ==
  [made |-> TRUE, sessionKey |-> sessionId, sessionTime |-> options.sessionTime]

\* an adoption that lets a key recovered from storage win over the hash
AdoptHashKeyIfNoneRecovered(sm, params) ==
  IF TruthyField(params, "sessionId") /\ ~Truthy(sm.sessionKey)
  THEN [sm EXCEPT !.sessionKey = params.sessionId] ELSE sm

\* if (params.sessionId) this.sessionManager.sessionKey = params.sessionId
AdoptHashKey(sm, params) ==
  IF TruthyField(params, "sessionId") THEN [sm EXCEPT !.sessionKey = params.sessionId] ELSE sm

\* if (params.sessionId) this.currentStorage.set("sessionId", params.sessionId)
PersistHashKey(st, params) ==
  IF TruthyField(params, "sessionId") THEN params.sessionId ELSE st

InitCall ==
  /\ pc = "idle"
  /\ LET params == HashQueryParams(location)
         sm == AdoptHashKey(NewSessionManager(storage), params)
     IN /\ pre' = Snapshot
        /\ location' = UrlAfterParse(location, options.replaceUrlOnRedirect)
        /\ storage' = PersistHashKey(storage, params)
        /\ sessionManager' = sm
        /\ IF HasKey(sm)
           THEN /\ calls' = <<Call("authorizeSession", sm, EmptyRec)>>
                /\ promise' = Pending("init")
                /\ pc' = "initAuthorize"
           ELSE /\ calls' = <<>>
                /\ promise' = Settle(Pending("init"), "resolved", Undefined)
                /\ pc' = "idle"
  /\ popup' = NoPopup
  /\ UNCHANGED <<options, state, store, loginId>>

\* the session store answers an authorize of key k with its data
CanAuthorize(k) == k \in SessionKeys /\ k \notin store.invalidated

InitAuthorized ==
  /\ pc = "initAuthorize"
  /\ CanAuthorize(sessionManager.sessionKey)
  /\ state' = UpdateState(state, SessionDataOf(sessionManager.sessionKey))
  /\ promise' = Settle(promise, "resolved", Undefined)
  /\ calls' = Answered(calls, "ok")
  /\ pc' = "idle"
  /\ UNCHANGED <<options, sessionManager, storage, location, popup, store, loginId, pre>>

\* an _authorizeSession without its catch: the failure reaches init's caller
InitAuthorizeFailedRethrown ==
  /\ pc = "initAuthorize"
  /\ promise' = Settle(promise, "rejected", "authorization failed")
  /\ calls' = Answered(calls, "failed")
  /\ pc' = "idle"
  /\ UNCHANGED <<options, state, sessionManager, storage, location, popup, store, loginId, pre>>

\* authorizeSession rejects: _authorizeSession logs it and returns {}
InitAuthorizeFailed ==
  /\ pc = "initAuthorize"
  /\ state' = UpdateState(state, EmptyRec)
  /\ promise' = Settle(promise, "resolved", Undefined)
  /\ calls' = Answered(calls, "failed")
  /\ pc' = "idle"
  /\ UNCHANGED <<options, sessionManager, storage, location, popup, store, loginId, pre>>

----------------------------------------------------------------------------
(* getLoginId(loginParams) and login(params) *)

\* a getLoginId that creates the login-request session through the orchestrator's
\* own session manager, under the active key and the configured lifetime
LoginSessionMgrOnActiveKey(id) == sessionManager

\* the login-request session manager getLoginId makes for a freshly minted key
LoginSessionMgr(id) == [made |-> TRUE, sessionKey |-> id, sessionTime |-> LoginSessionTime]

\* getLoginId after its check: the key, the login-request session manager, createSession
MintAndCreate(op, loginParams) ==
  /\ store.minted < MaxLogins
  /\ LET id == GenerateRandomSessionKey(store.minted + 1)
         dataObject == [options |-> options, params |-> loginParams]
     IN /\ loginId' = id
        /\ calls' = <<Call("createSession", LoginSessionMgr(id), dataObject)>>
  /\ store' = [store EXCEPT !.minted = @ + 1]
  /\ promise' = Pending(op)
  /\ pc' = "createSession"

\* a getLoginId without the check that init() has made the session manager
GetLoginIdStartUnguarded(op, loginParams) == MintAndCreate(op, loginParams)

\* getLoginId: the not-initialized check, then MintAndCreate
GetLoginIdStart(op, loginParams) ==
  IF ~sessionManager.made
  THEN /\ promise' = Settle(Pending(op), "rejected",
                            "session manager not initialized. please call init first")
       /\ calls' = <<>>
       /\ pc' = "idle"
       /\ UNCHANGED <<store, loginId>>
  ELSE MintAndCreate(op, loginParams)

GetLoginIdCall ==
  /\ pc = "idle"
  /\ pre' = Started([loginProvider |-> "google"])
  /\ GetLoginIdStart("getLoginId", [loginProvider |-> "google"])
  /\ popup' = NoPopup
  /\ UNCHANGED <<options, state, sessionManager, storage, location>>

\* a parameter check that only looks whether params were passed at all
MissingLoginProviderOnlyNoParams(p) == ~p.given

\* !params || !params.loginProvider
MissingLoginProvider(p) == ~p.given \/ ~TruthyField(p.fields, "loginProvider")

LoginCall ==
  /\ pc = "idle"
  /\ \E p \in LoginParamChoices :
       /\ pre' = [Snapshot EXCEPT !.args = p]
       /\ IF MissingLoginProvider(p)
          THEN /\ promise' = Settle(Pending("login"), "rejected",
                                    "Please pass loginProvider in params")
               /\ calls' = <<>>
               /\ pc' = "idle"
               /\ UNCHANGED <<store, loginId>>
          ELSE GetLoginIdStart("login",
                 Spread(Spread([loginProvider |-> Field(p.fields, "loginProvider")],
                               [redirectUrl |-> options.redirectUrl]), p.fields))
  /\ popup' = NoPopup
  /\ UNCHANGED <<options, state, sessionManager, storage, location>>

\* the session store fails the createSession request
CreateSessionFailed ==
  /\ pc = "createSession"
  /\ promise' = Settle(promise, "rejected", "createSession failed")
  /\ calls' = Answered(calls, "failed")
  /\ pc' = "idle"
  /\ UNCHANGED <<options, state, sessionManager, storage, location, popup, store,
                 loginId, pre>>

\* a login URL that carries the active session key instead of the login-request id
LoginUrlWithSessionKey(route, id) == ConstructURL(route, [loginId |-> sessionManager.sessionKey])

\* the URL login hands to the transport
LoginUrl(route, id) == ConstructURL(route, [loginId |-> id])

\* new PopupHandler({ url }) ... open()
PopupOpened(url) == [status |-> "open", url |-> url, message |-> Undefined]

\* createSession resolved: getLoginId returns, and login dispatches by uxMode
SessionCreated ==
  /\ pc = "createSession"
  /\ LET req == calls[Len(calls)]
     IN store' = [store EXCEPT !.sessions = @ \cup
                    {[key |-> req.key, sessionTime |-> req.sessionTime, data |-> req.data]}]
  /\ IF promise.op = "getLoginId"
     THEN /\ promise' = Settle(promise, "resolved", loginId)
          /\ pc' = "idle"
          /\ UNCHANGED <<location, popup>>
     ELSE IF options.uxMode = "redirect"
     THEN /\ location' = LoginUrl("sdkUrl/start", loginId)
          /\ promise' = Settle(promise, "resolved", Undefined)
          /\ pc' = "navigated"
          /\ UNCHANGED popup
     ELSE /\ popup' = PopupOpened(LoginUrl("sdkUrl/popup-window", loginId))
          /\ pc' = "popupWait"
          /\ UNCHANGED <<location, promise>>
  /\ calls' = Answered(calls, "ok")
  /\ UNCHANGED <<options, state, sessionManager, storage, loginId, pre>>

\* a transport that also emits "close" when the popup is closed after its message
PopupEmitsCloseAfterMessage == popup.status \in {"open", "delivered"}

\* the popup transport emits "close": once, and only when closed before completion
PopupEmitsClose == popup.status = "open"

\* the channel delivers its one message, or fails: once, and not from a closed popup
ChannelSettles == popup.status = "open"

\* a close handler that settles the login with the current private key
PopupClosedResolves ==
  /\ PopupEmitsClose
  /\ popup' = [popup EXCEPT !.status = "closed"]
  /\ promise' = Settle(promise, "resolved", PrivKey(state))
  /\ pc' = IF pc = "popupWait" THEN "idle" ELSE pc
  /\ UNCHANGED <<options, state, sessionManager, storage, location, store, loginId,
                 calls, pre>>

\* currentWindow.on("close", ...)
PopupClosed ==
  /\ PopupEmitsClose
  /\ popup' = [popup EXCEPT !.status = "closed"]
  /\ promise' = Settle(promise, "rejected", "user closed popup")
  /\ pc' = IF pc = "popupWait" THEN "idle" ELSE pc
  /\ UNCHANGED <<options, state, sessionManager, storage, location, store, loginId,
                 calls, pre>>

\* a handler that authorizes before it adopts the delivered key
ChannelMessageAuthorizesOldKey ==
  /\ pc = "popupWait"
  /\ ChannelSettles
  /\ \E sessionId \in SessionKeys :
       /\ popup' = [popup EXCEPT !.status = "delivered", !.message = sessionId]
       /\ sessionManager' = [sessionManager EXCEPT !.sessionKey = sessionId]
       /\ calls' = Append(calls, Call("authorizeSession", sessionManager, EmptyRec))
  /\ pc' = "popupAuthorize"
  /\ UNCHANGED <<options, state, storage, location, promise, store, loginId, pre>>

\* listenOnChannel(loginId).then((sessionId) => ...)
ChannelMessage ==
  /\ pc = "popupWait"
  /\ ChannelSettles
  /\ \E sessionId \in SessionKeys :
       /\ popup' = [popup EXCEPT !.status = "delivered", !.message = sessionId]
       /\ sessionManager' = [sessionManager EXCEPT !.sessionKey = sessionId]
       /\ calls' = Append(calls, Call("authorizeSession", sessionManager', EmptyRec))
  /\ pc' = "popupAuthorize"
  /\ UNCHANGED <<options, state, storage, location, promise, store, loginId, pre>>

\* listenOnChannel(loginId) rejects: .catch(reject)
ChannelFailed ==
  /\ pc = "popupWait"
  /\ ChannelSettles
  /\ popup' = [popup EXCEPT !.status = "failed"]
  /\ promise' = Settle(promise, "rejected", "channel error")
  /\ pc' = "idle"
  /\ UNCHANGED <<options, state, sessionManager, storage, location, store, loginId,
                 calls, pre>>

\* .then((sessionData) => ...)
PopupAuthorized ==
  /\ pc = "popupAuthorize"
  /\ CanAuthorize(sessionManager.sessionKey)
  /\ state' = UpdateState(state, SessionDataOf(sessionManager.sessionKey))
  /\ promise' = Settle(promise, "resolved", PrivKey(state'))
  /\ calls' = Answered(calls, "ok")
  /\ pc' = "idle"
  /\ UNCHANGED <<options, sessionManager, storage, location, popup, store, loginId, pre>>

\* a chain without its .catch(reject): the failure settles nothing
PopupAuthorizeFailedUncaught ==
  /\ pc = "popupAuthorize"
  /\ calls' = Answered(calls, "failed")
  /\ pc' = "idle"
  /\ UNCHANGED <<options, state, sessionManager, storage, location, promise, popup, store,
                 loginId, pre>>

\* a chain that swallows the failure as init does, and resolves
PopupAuthorizeFailedSwallowed ==
  /\ pc = "popupAuthorize"
  /\ state' = UpdateState(state, EmptyRec)
  /\ promise' = Settle(promise, "resolved", PrivKey(state'))
  /\ calls' = Answered(calls, "failed")
  /\ pc' = "idle"
  /\ UNCHANGED <<options, sessionManager, storage, location, popup, store, loginId, pre>>

\* authorizeSession rejects: .catch(reject)
PopupAuthorizeFailed ==
  /\ pc = "popupAuthorize"
  /\ promise' = Settle(promise, "rejected", "authorization failed")
  /\ calls' = Answered(calls, "failed")
  /\ pc' = "idle"
  /\ UNCHANGED <<options, state, sessionManager, storage, location, popup, store,
                 loginId, pre>>

----------------------------------------------------------------------------
(* logout() *)

LogoutCall ==
  /\ pc = "idle"
  /\ pre' = Snapshot
  /\ IF ~sessionManager.made
     THEN /\ promise' = Settle(Pending("logout"), "rejected",
                               "TypeError: sessionManager is undefined")
          /\ calls' = <<>>
          /\ pc' = "idle"
     ELSE IF ~HasKey(sessionManager)
     THEN /\ promise' = Settle(Pending("logout"), "rejected", "User not logged in")
          /\ calls' = <<>>
          /\ pc' = "idle"
     ELSE /\ promise' = Pending("logout")
          /\ calls' = <<Call("invalidateSession", sessionManager, EmptyRec)>>
          /\ pc' = "invalidateSession"
  /\ popup' = NoPopup
  /\ UNCHANGED <<options, state, sessionManager, storage, location, store, loginId>>

\* invalidateSession resolved; the session manager may drop the key it invalidated
LogoutInvalidated ==
  /\ pc = "invalidateSession"
  /\ store' = [store EXCEPT !.invalidated = @ \cup {sessionManager.sessionKey}]
  /\ \E k \in {sessionManager.sessionKey, ""} :
       sessionManager' = [sessionManager EXCEPT !.sessionKey = k]
  /\ state' = UpdateState(state, LogoutState)
  /\ storage' = ""
  /\ promise' = Settle(promise, "resolved", Undefined)
  /\ calls' = Answered(calls, "ok")
  /\ pc' = "idle"
  /\ UNCHANGED <<options, location, popup, loginId, pre>>

\* a logout that clears locally even though invalidateSession rejected
LogoutInvalidateFailedThenClears ==
  /\ pc = "invalidateSession"
  /\ state' = UpdateState(state, LogoutState)
  /\ storage' = ""
  /\ promise' = Settle(promise, "rejected", "invalidate failed")
  /\ calls' = Answered(calls, "failed")
  /\ pc' = "idle"
  /\ UNCHANGED <<options, sessionManager, location, popup, store, loginId, pre>>

\* invalidateSession rejects
LogoutInvalidateFailed ==
  /\ pc = "invalidateSession"
  /\ promise' = Settle(promise, "rejected", "invalidate failed")
  /\ calls' = Answered(calls, "failed")
  /\ pc' = "idle"
  /\ UNCHANGED <<options, state, sessionManager, storage, location, popup, store,
                 loginId, pre>>

----------------------------------------------------------------------------
(* getUserInfo: synchronous, it returns or throws at once *)

\* a login check that looks for a user-info record instead of the private key
AuthenticatedByUserInfo(s) == "userInfo" \in DOMAIN s

\* if (this.privKey)
Authenticated(s) == PrivKey(s) # ""

\* this.state.userInfo
UserInfoOf(s) ==
  IF "userInfo" \in DOMAIN s THEN [present |-> TRUE, value |-> s.userInfo] ELSE NoInfo

GetUserInfoCall ==
  /\ pc = "idle"
  /\ pre' = Snapshot
  /\ promise' =
       IF Authenticated(state)
       THEN [Settle(Pending("getUserInfo"), "resolved", "userInfo")
               EXCEPT !.info = UserInfoOf(state)]
       ELSE Settle(Pending("getUserInfo"), "rejected",
                   "user should be logged in to fetch userInfo")
  /\ calls' = <<>>
  /\ popup' = NoPopup
  /\ UNCHANGED <<options, state, sessionManager, storage, location, pc, store, loginId>>

----------------------------------------------------------------------------
Next ==
  \/ PageLoad
  \/ InitCall
  \/ InitAuthorized
  \/ InitAuthorizeFailed
  \/ GetLoginIdCall
  \/ LoginCall
  \/ CreateSessionFailed
  \/ SessionCreated
  \/ PopupClosed
  \/ ChannelMessage
  \/ ChannelFailed
  \/ PopupAuthorized
  \/ PopupAuthorizeFailed
  \/ LogoutCall
  \/ LogoutInvalidated
  \/ LogoutInvalidateFailed
  \/ GetUserInfoCall

Spec == Init /\ [][Next]_vars

----------------------------------------------------------------------------
(* The key accessors on their own: an orchestrator whose state holds any key  *)
(* material, read through get privKey() and get coreKitKey()                  *)

\* the longest key value tried
MaxKeyLen == 65

\* the character c repeated n times
RECURSIVE Repeat(_, _)
Repeat(c, n) == IF n = 0 THEN "" ELSE c \o Repeat(c, n - 1)

\* values of a key field of state: unset, empty, or hex material of any length
KeyFieldChoices(f) ==
  {EmptyRec} \cup {[g \in {f} |-> v] : v \in {""} \cup {Repeat("f", n) : n \in 1..MaxKeyLen}}

InitAccessors ==
  /\ options = Constructor(EmptyRec)
  /\ location = ConstructURL("dapp", EmptyRec)
  /\ \E a \in KeyFieldChoices("privKey"), b \in KeyFieldChoices("coreKitKey") :
       state = Spread(a, b)
  /\ sessionManager = NoSessionManager
  /\ storage = Undefined
  /\ pc = "idle"
  /\ promise = NoPromise
  /\ popup = NoPopup
  /\ store = [sessions |-> {}, invalidated |-> {}, minted |-> 0]
  /\ loginId = Undefined
  /\ calls = <<>>
  /\ pre = Snapshot

\* a read of the accessor named op, whose value is v
ReadAccessor(op, v) ==
  /\ pc = "idle"
  /\ promise' = Settle(Pending(op), "resolved", v)
  /\ UNCHANGED <<options, state, sessionManager, storage, location, pc, popup, store,
                 loginId, calls, pre>>

GetPrivKey == ReadAccessor("privKey", PrivKey(state))

GetCoreKitKey == ReadAccessor("coreKitKey", CoreKitKey(state))

NextAccessors ==
  \/ GetPrivKey
  \/ GetCoreKitKey

SpecAccessors == InitAccessors /\ [][NextAccessors]_vars

----------------------------------------------------------------------------
(* Claims *)

\* the last request the call in progress (or last made) sent to the session store
LastCall == calls[Len(calls)]

\* the call named op has sent a request fn and the store has answered it with outcome
Got(op, fn, outcome) ==
  /\ promise.op = op
  /\ calls # <<>>
  /\ LastCall.fn = fn
  /\ LastCall.outcome = outcome

\* every known field of s is present and is the empty string
AllEmpty(s) ==
  /\ \A f \in KeyFields : f \in DOMAIN s /\ s[f] = ""
  /\ "userInfo" \in DOMAIN s
  /\ DOMAIN s.userInfo = UserInfoFields
  /\ \A g \in UserInfoFields : s.userInfo[g] = ""

\* C1: whenever logout() has completed successfully, every known field of state
\* (the seven keys and every field of userInfo) is present and is "", and the
\* persisted sessionId is "", whatever state and storage held before the call.
C1_LogoutClearsEverything ==
  (promise.op = "logout" /\ promise.status = "resolved") =>
    (AllEmpty(state) /\ storage = "")

\* a logout has completed on a state that held keys and user info, over a stored key
C1_Witness ==
  /\ promise.op = "logout"
  /\ promise.status = "resolved"
  /\ TruthyField(pre.state, "privKey")
  /\ "userInfo" \in DOMAIN pre.state
  /\ Truthy(pre.storage)

\* C2: after any sequence of init/login/logout calls, whenever state holds a
\* non-empty private key the persisted sessionId equals the active session key,
\* so a reload's init() over the same storage authorizes that key again.
C2_PrivKeyImpliesKeyPersisted ==
  (pc = "idle" /\ TruthyField(state, "privKey")) =>
    (sessionManager.made /\ storage = sessionManager.sessionKey)

\* C3: init() never fails because of a stale session: it never rejects, and when
\* the authorize of the recovered or hash-delivered key fails, init() completes
\* and the state is exactly what it was before the call.
C3_InitSwallowsAuthorizeFailure ==
  /\ promise.op = "init" => promise.status \in {"pending", "resolved"}
  /\ Got("init", "authorizeSession", "failed") =>
       (promise.status = "resolved" /\ pc = "idle" /\ state = pre.state)

\* an init whose authorize failed has completed on an orchestrator that held state
C3_Witness ==
  /\ Got("init", "authorizeSession", "failed")
  /\ promise.status = "resolved"
  /\ pre.state # EmptyRec

\* an init of a fresh orchestrator whose authorize of a hash-delivered key failed
C3_WitnessFresh ==
  /\ Got("init", "authorizeSession", "failed")
  /\ promise.status = "resolved"
  /\ TruthyField(pre.location.hash, "sessionId")
  /\ state = EmptyRec


\* the call in progress (or last made) has sent an authorizeSession request
Authorizes == \E i \in 1..Len(calls) : calls[i].fn = "authorizeSession"

C6_CloseBeforeMessageCancels ==
  popup.status = "closed" =>
    /\ promise.op = "login"
    /\ promise.status = "rejected"
    /\ promise.value = "user closed popup"
    /\ ~Authorizes
    /\ state = pre.state
    /\ sessionManager = pre.sessionManager

\* a popup login was cancelled on an orchestrator that held a session
C6_Witness ==
  /\ popup.status = "closed"
  /\ promise.status = "rejected"
  /\ TruthyField(state, "privKey")
  /\ Truthy(sessionManager.sessionKey)

\* C7: in popup mode an authorization failure is not swallowed: when the channel
\* delivers a key and its authorize fails, or the channel itself fails, login()
\* rejects with that failure, never resolves, and merges nothing into state.
C7_PopupFailureRejects ==
  /\ Got("login", "authorizeSession", "failed") =>
       /\ promise.status = "rejected"
       /\ promise.value = "authorization failed"
       /\ state = pre.state
  /\ popup.status = "failed" =>
       /\ promise.status = "rejected"
       /\ promise.value = "channel error"
       /\ ~Authorizes
       /\ state = pre.state

\* a popup login was rejected by a failed authorize on an orchestrator holding state
C7_Witness ==
  /\ Got("login", "authorizeSession", "failed")
  /\ promise.status = "rejected"
  /\ pre.state # EmptyRec

\* a popup login was rejected by a channel error
C7_WitnessChannel ==
  /\ popup.status = "failed"
  /\ promise.status = "rejected"

\* what C8 says of a redirect login apart from the promise: the login-request
\* session is created before the navigation, and the target's loginId is its id
RedirectAfterCreate ==
  /\ location.base # "dapp" => pc = "navigated"
  /\ pc = "navigated" =>
       /\ promise.op = "login"
       /\ calls = <<[LastCall EXCEPT !.fn = "createSession", !.outcome = "ok"]>>
       /\ LastCall.key = loginId
       /\ \E r \in store.sessions : r.key = loginId /\ r.sessionTime = LoginSessionTime
       /\ location.base = "sdkUrl/start"
       /\ location.hash = [loginId |-> loginId]

\* C8 as stated: in redirect mode login() creates the login-request session, then
\* navigates to a target whose hash parameter loginId is the created id, and the
\* promise login() returned never settles after the navigation.
C8_RedirectNeverSettles ==
  /\ RedirectAfterCreate
  /\ pc = "navigated" => promise.status = "pending"

\* C8 as amended: the same, except that the promise resolves with undefined (no
\* private key) once the navigation is issued; it is never rejected after it.
C8_RedirectResolvesUndefined ==
  /\ RedirectAfterCreate
  /\ pc = "navigated" => (promise.status = "resolved" /\ promise.value = Undefined)

\* a redirect login has navigated away, from an orchestrator with an active session
C8_Witness ==
  /\ pc = "navigated"
  /\ Truthy(sessionManager.sessionKey)

\* C9: when init() finds a session key in the page hash it writes it to storage
\* as sessionId and adopts it as the active key in place of any recovered key: the
\* one authorize that init() makes uses the hash-delivered key.
C9_HashKeyOverridesStored ==
  (promise.op = "init" /\ TruthyField(pre.location.hash, "sessionId")) =>
    /\ storage = pre.location.hash.sessionId
    /\ sessionManager.sessionKey = pre.location.hash.sessionId
    /\ Len(calls) = 1
    /\ calls[1].fn = "authorizeSession"
    /\ calls[1].key = pre.location.hash.sessionId

\* an init found a key in the hash while storage held a different key
C9_Witness ==
  /\ promise.op = "init"
  /\ promise.status = "resolved"
  /\ TruthyField(pre.location.hash, "sessionId")
  /\ Truthy(pre.storage)
  /\ pre.storage # pre.location.hash.sessionId

\* C10: with no session key in the page hash, init() recovers the key stored
\* under sessionId and authorizes exactly that key (and nothing when none is
\* stored); after a successful authorize state holds every field of the returned
\* data with the returned value.
C10_InitRecoversStoredKey ==
  (promise.op = "init" /\ ~TruthyField(pre.location.hash, "sessionId")) =>
    /\ storage = pre.storage
    /\ sessionManager.sessionKey = pre.storage
    /\ IF Truthy(pre.storage)
       THEN Len(calls) = 1 /\ calls[1].fn = "authorizeSession" /\ calls[1].key = pre.storage
       ELSE calls = <<>>
    /\ Got("init", "authorizeSession", "ok") =>
         LET data == SessionDataOf(pre.storage)
         IN \A f \in DOMAIN data : f \in DOMAIN state /\ state[f] = data[f]

\* an init with no hash key recovered a stored key and merged its data over a
\* state that held another session's private key
C10_Witness ==
  /\ Got("init", "authorizeSession", "ok")
  /\ ~TruthyField(pre.location.hash, "sessionId")
  /\ TruthyField(pre.state, "privKey")
  /\ pre.state.privKey # state.privKey

\* C11: logout() called when no active session key exists (none recovered, none
\* delivered by hash or popup) fails with a not-logged-in error, sends no
\* invalidate to the session store, and leaves state and the persisted sessionId
\* unchanged.
C11_LogoutWithoutKeyNotLoggedIn ==
  (promise.op = "logout" /\ ~Truthy(pre.sessionManager.sessionKey)) =>
    /\ promise.status = "rejected"
    /\ promise.value = "User not logged in"
    /\ calls = <<>>
    /\ state = pre.state
    /\ storage = pre.storage

\* C12: login() called with no params, or with params lacking loginProvider, is
\* rejected with the invalid-argument error before any effect: no request reaches
\* the session store and no login-request key is minted, no popup is opened, the
\* page does not navigate, state and the active session key are unchanged; in both
\* UX modes and whether or not init() was called before.
C12_LoginWithoutProviderHasNoEffect ==
  (/\ promise.op = "login"
   /\ (~pre.args.given \/ ~TruthyField(pre.args.fields, "loginProvider"))) =>
    /\ promise.status = "rejected"
    /\ promise.value = "Please pass loginProvider in params"
    /\ pc = "idle"
    /\ calls = <<>>
    /\ store = pre.store
    /\ popup = NoPopup
    /\ location = pre.location
    /\ state = pre.state
    /\ sessionManager = pre.sessionManager
    /\ storage = pre.storage

\* login({}) was rejected in popup mode, after an init() that left an active key
C12_Witness ==
  /\ promise.op = "login"
  /\ pre.args.given
  /\ ~TruthyField(pre.args.fields, "loginProvider")
  /\ promise.status = "rejected"
  /\ options.uxMode = "popup"
  /\ Truthy(sessionManager.sessionKey)
  /\ TruthyField(state, "privKey")

\* login() without params was rejected in redirect mode, before any init()
C12_WitnessBeforeInit ==
  /\ promise.op = "login"
  /\ ~pre.args.given
  /\ promise.status = "rejected"
  /\ options.uxMode = "redirect"
  /\ ~sessionManager.made

\* C13: getUserInfo() returns the user-info record state currently holds exactly
\* when state holds a non-empty private key, and fails with the not-authenticated
\* error otherwise: on a fresh orchestrator, after an init() whose authorize
\* failed, and after a successful logout() until a later init() or login()
\* authorizes a key again.
C13_UserInfoIffPrivKey ==
  (promise.op = "getUserInfo") =>
    /\ promise.status \in {"resolved", "rejected"}
    /\ (promise.status = "resolved") <=> TruthyField(state, "privKey")
    /\ (promise.status = "resolved") => promise.info = UserInfoOf(state)
    /\ (promise.status = "rejected") =>
         promise.value = "user should be logged in to fetch userInfo"
    /\ state = pre.state
    /\ (state = EmptyRec \/ AllEmpty(state)) => promise.status = "rejected"

\* getUserInfo() failed on an orchestrator whose logout() had emptied state
C13_Witness ==
  /\ promise.op = "getUserInfo"
  /\ promise.status = "rejected"
  /\ AllEmpty(state)
  /\ storage = ""

\* getUserInfo() returned the record of an authorized key
C13_WitnessReturned ==
  /\ promise.op = "getUserInfo"
  /\ promise.status = "resolved"
  /\ promise.info.present
  /\ promise.info.value = SessionDataOf(sessionManager.sessionKey).userInfo

\* getUserInfo() failed after an init() whose authorize had failed
C13_WitnessInitFailed ==
  /\ promise.op = "getUserInfo"
  /\ promise.status = "rejected"
  /\ state = EmptyRec
  /\ Truthy(sessionManager.sessionKey)

\* n zeros
Zeros(n) == Repeat("0", n)

\* the accessor named op was read last, it reads field f of state, and what it
\* returned satisfies P(underlying value, returned value) when the field is non-empty
AccessorReturns(op, f, P(_, _)) ==
  (promise.op = op) =>
    IF TruthyField(state, f) THEN P(state[f], promise.value) ELSE promise.value = ""

\* v left-padded with zeros to exactly PadWidth characters
ExactlyPadded(v, r) == Len(r) = PadWidth /\ r = Zeros(PadWidth - Len(v)) \o v

\* v left-padded with zeros up to PadWidth characters, and v itself when it is longer
PaddedUpTo(v, r) == IF Len(v) <= PadWidth THEN ExactlyPadded(v, r) ELSE r = v

\* C14 as stated: for every value of the underlying privKey (and coreKitKey) field
\* the accessor returns "" when the field is unset or empty, and otherwise a string
\* of exactly 64 characters, the value left-padded with '0'.
C14_AccessorExactly64 ==
  /\ AccessorReturns("privKey", "privKey", ExactlyPadded)
  /\ AccessorReturns("coreKitKey", "coreKitKey", ExactlyPadded)

\* C14, amended: the accessor returns "" when the field is unset or empty; a value
\* of at most 64 characters is returned left-padded with '0' to exactly 64
\* characters; a longer value is returned unchanged, so with more than 64.
C14_AccessorPadsUpTo64 ==
  /\ AccessorReturns("privKey", "privKey", PaddedUpTo)
  /\ AccessorReturns("coreKitKey", "coreKitKey", PaddedUpTo)

\* a private key shorter than 64 characters was read, and came back with 64
C14_Witness ==
  /\ promise.op = "privKey"
  /\ TruthyField(state, "privKey")
  /\ Len(state.privKey) < PadWidth
  /\ Len(promise.value) = PadWidth

\* a core-kit key longer than 64 characters was read, and came back as it is
C14_WitnessLong ==
  /\ promise.op = "coreKitKey"
  /\ TruthyField(state, "coreKitKey")
  /\ Len(state.coreKitKey) > PadWidth
  /\ promise.value = state.coreKitKey

\* the login-request keys getLoginId has minted so far
MintedKeys == {GenerateRandomSessionKey(n) : n \in 1..store.minted}

\* request c went out under the active user session key k, with the configured
\* session lifetime
OnActiveKey(c, k) ==
  /\ c.key = k
  /\ Truthy(k)
  /\ k \notin MintedKeys
  /\ c.sessionTime = options.sessionTime

\* C15: the two kinds of session key are never confused. The active user session
\* key is never a login-request key minted by getLoginId; createSession is only
\* sent under the login-request key minted by the same call, with the fixed 600 s
\* lifetime; authorize and invalidate are only sent under the active user session
\* key, with the configured session lifetime.
C15_KeyKindsNeverConfused ==
  /\ sessionManager.sessionKey \notin MintedKeys
  /\ \A i \in 1..Len(calls) :
       LET c == calls[i]
       IN /\ c.fn = "createSession" =>
               /\ store.minted = pre.store.minted + 1
               /\ c.key = GenerateRandomSessionKey(store.minted)
               /\ c.key = loginId
               /\ c.key # sessionManager.sessionKey
               /\ c.sessionTime = LoginSessionTime
          /\ c.fn = "authorizeSession" => OnActiveKey(c, sessionManager.sessionKey)
          /\ c.fn = "invalidateSession" => OnActiveKey(c, pre.sessionManager.sessionKey)
          /\ c.fn \in {"createSession", "authorizeSession", "invalidateSession"}

\* a popup login under a configured lifetime other than 600 s has created its
\* login-request session and then authorized the delivered user session key
C15_Witness ==
  /\ Got("login", "authorizeSession", "ok")
  /\ Len(calls) = 2
  /\ calls[1].fn = "createSession"
  /\ calls[1].key \in MintedKeys
  /\ calls[1].sessionTime = LoginSessionTime
  /\ calls[2].key = sessionManager.sessionKey
  /\ calls[2].sessionTime # LoginSessionTime

\* a logout has invalidated the active key under the configured lifetime
C15_WitnessLogout ==
  /\ Got("logout", "invalidateSession", "ok")
  /\ calls[1].key = pre.sessionManager.sessionKey
  /\ calls[1].sessionTime = options.sessionTime

\* C16: logout acts in the order invalidate at the session store, then reset of
\* state, then clearing of storage. While the invalidate is in flight nothing has
\* been reset; state or storage change only once it has succeeded; and when it
\* fails the failure is the call's result and state and the persisted sessionId
\* are as they were before the call.
C16_LogoutInvalidatesFirst ==
  (promise.op = "logout") =>
    /\ pc = "invalidateSession" =>
         /\ promise.status = "pending"
         /\ state = pre.state
         /\ storage = pre.storage
    /\ (state # pre.state \/ storage # pre.storage) =>
         /\ Got("logout", "invalidateSession", "ok")
         /\ LastCall.key \in store.invalidated
    /\ promise.status = "resolved" => Got("logout", "invalidateSession", "ok")
    /\ Got("logout", "invalidateSession", "failed") =>
         /\ promise.status = "rejected"
         /\ promise.value = "invalidate failed"
         /\ state = pre.state
         /\ storage = pre.storage
         /\ sessionManager = pre.sessionManager

\* a logout over a logged-in state and a stored key has failed at the invalidate
C16_Witness ==
  /\ Got("logout", "invalidateSession", "failed")
  /\ promise.status = "rejected"
  /\ TruthyField(state, "privKey")
  /\ Truthy(storage)

\* C17: getLoginId(), or login() with a valid loginProvider, called before init()
\* is rejected with the not-initialized error and has no effect: no login-request
\* key is minted, no request reaches the session store, no popup is opened, the
\* page does not navigate.
C17_LoginBeforeInitHasNoEffect ==
  (/\ promise.op \in {"login", "getLoginId"}
   /\ ~pre.sessionManager.made
   /\ pre.args.given
   /\ TruthyField(pre.args.fields, "loginProvider")) =>
    /\ promise.status = "rejected"
    /\ promise.value = "session manager not initialized. please call init first"
    /\ pc = "idle"
    /\ store = pre.store
    /\ calls = <<>>
    /\ popup = NoPopup
    /\ location = pre.location
    /\ state = pre.state
    /\ sessionManager = pre.sessionManager
    /\ storage = pre.storage

\* login({loginProvider}) was rejected in popup mode on an orchestrator that had
\* not run init(), on a page whose hash carries a key
C17_Witness ==
  /\ promise.op = "login"
  /\ TruthyField(pre.args.fields, "loginProvider")
  /\ promise.status = "rejected"
  /\ ~sessionManager.made
  /\ options.uxMode = "popup"
  /\ TruthyField(location.hash, "sessionId")

\* getLoginId() was rejected on an orchestrator that had not run init()
C17_WitnessGetLoginId ==
  /\ promise.op = "getLoginId"
  /\ promise.status = "rejected"
  /\ ~sessionManager.made

\* C18: construction fills only the optional fields that are unset: on an
\* orchestrator just constructed, every field the caller supplied (an explicit
\* replaceUrlOnRedirect = false included) has the supplied value in options, and
\* applying the defaulting again changes nothing.
C18_SuppliedOptionsKept ==
  (promise.op = "none" /\ pre.args.given) =>
    /\ \A f \in DOMAIN pre.args.fields : options[f] = pre.args.fields[f]
    /\ Constructor(options) = options

\* C19: logout is durable across reloads. On a fresh orchestrator whose storage
\* holds the "" a successful logout() left there, and whose page hash carries no
\* key, init() finds no active key, sends no authorize, completes, and leaves state
\* empty; and a logout() on an orchestrator that init() left in that condition is
\* rejected as not logged in and sends nothing: the persisted "" counts as no key.
C19_LogoutSurvivesReload ==
  /\ (/\ promise.op = "init"
      /\ ~pre.sessionManager.made
      /\ pre.storage = ""
      /\ ~TruthyField(pre.location.hash, "sessionId")) =>
       /\ promise.status = "resolved"
       /\ pc = "idle"
       /\ calls = <<>>
       /\ sessionManager.made
       /\ sessionManager.sessionKey = ""
       /\ state = EmptyRec
       /\ storage = ""
  /\ (/\ promise.op = "logout"
      /\ pre.sessionManager.made
      /\ pre.sessionManager.sessionKey = ""
      /\ pre.storage = "") =>
       /\ promise.status = "rejected"
       /\ promise.value = "User not logged in"
       /\ calls = <<>>
       /\ state = pre.state
       /\ storage = ""

\* after a logout and a reload, logout() was rejected on the new orchestrator,
\* whose init() had recovered the "" from storage
C19_Witness ==
  /\ promise.op = "logout"
  /\ promise.status = "rejected"
  /\ pre.storage = ""
  /\ pre.state = EmptyRec
  /\ pre.sessionManager.made
  /\ pre.sessionManager.sessionKey = ""
  /\ store.invalidated # {}

\* after a logout and a reload, init() has completed without an authorize
C19_WitnessInit ==
  /\ promise.op = "init"
  /\ promise.status = "resolved"
  /\ pre.storage = ""
  /\ ~pre.sessionManager.made
  /\ calls = <<>>
  /\ store.invalidated # {}

\* field f of state holds something: a non-empty key, or a user-info record with
\* a non-empty field
NonEmptyField(s, f) ==
  IF f = "userInfo" THEN \E g \in DOMAIN s.userInfo : s.userInfo[g] # "" ELSE s[f] # ""

\* C20: under serialized calls, once a call has completed, every non-empty field
\* of state was returned by the authorize of the key that is now the active one:
\* state never holds data of another key, nor fields of two keys.
C20_StateBelongsToActiveKey ==
  (pc = "idle") =>
    \A f \in DOMAIN state :
      NonEmptyField(state, f) =>
        /\ sessionManager.sessionKey \in SessionKeys
        /\ f \in DOMAIN SessionDataOf(sessionManager.sessionKey)
        /\ state[f] = SessionDataOf(sessionManager.sessionKey)[f]

====
